---------------------------- MODULE Spec2Model ----------------------------
(***************************************************************************)
(* Model of src/ProjectPlanning.py: the classes Projects and               *)
(* Projects_Planner.  A planner is built over a catalog of projects (a     *)
(* dict from project name to its record), a period and a first day; its    *)
(* methods schedule projects (add_projects, search_first_project,          *)
(* search_next_project), retire them (update_simulatenous_projects),       *)
(* compute the daily production (project_production), order the whole      *)
(* catalog (projects_ordering) and simulate the period (__call__).         *)
(*                                                                         *)
(* Conventions.  Python sequences are TLA+ sequences; a Python index i     *)
(* (from 0, negative from the end) is read with At.  Positions of the      *)
(* catalog (the indices of projects_names) are kept 1-based here, so the   *)
(* index ii of an entry of projects_sequence is position ii of             *)
(* projects_names.  Floating point quantities are integers; global_mean =  *)
(* total_prod / period is a ratio, so every comparison against it is made  *)
(* on both sides multiplied by period (period > 0).  Day numbers are       *)
(* matplotlib date numbers with the default epoch 1970-01-01.  numpy's     *)
(* argsort is taken stable (ties keep index order).  An exception leaves   *)
(* the planner as the statements before it left it and is recorded in err. *)
(***************************************************************************)
EXTENDS Integers, Sequences, FiniteSets, TLC

\* ------------------------------------------------------------------ bounds

MaxProjects == 2     \* catalog size of Spec
MaxDay == 1          \* largest day handed to an operation of Spec
MaxLog == 2          \* cap on the length of projects_time_sequence in Spec
MaxCall == 1         \* cap on the counter call
MaxAddList == 2      \* longest list handed to add_projects
MaxPeriod == 3       \* largest period
MaxIters == 2        \* initial_iters, the combinations search_first_project draws
MaxExams == 4        \* cap on the rounds of the unbounded random search

\* ------------------------------------------------------------- sequences

Range(s) == {s[i] : i \in DOMAIN s}

\* the function f over 1..n as a sequence
Array(f) == <<>> \o f

Reverse(s) == Array([i \in 1..Len(s) |-> s[Len(s) + 1 - i]])

RECURSIVE FlattenFrom(_, _)
FlattenFrom(ss, k) ==
    IF k > Len(ss) THEN <<>> ELSE ss[k] \o FlattenFrom(ss, k + 1)

\* the sequences of ss, one after the other
Flatten(ss) == FlattenFrom(ss, 1)

RECURSIVE SumFrom(_, _)
SumFrom(s, k) == IF k > Len(s) THEN 0 ELSE s[k] + SumFrom(s, k + 1)

SumSeq(s) == SumFrom(s, 1)

RECURSIVE SelectIdx(_, _, _)
\* np.where(cond)[0]: the positions i..n where cond holds, ascending
SelectIdx(cond, i, n) ==
    IF i > n THEN <<>>
    ELSE (IF cond[i] THEN <<i>> ELSE <<>>) \o SelectIdx(cond, i + 1, n)

Where(cond) == SelectIdx(cond, 1, Len(cond))

Take(arr, idx) == Array([k \in 1..Len(idx) |-> arr[idx[k]]])

Abs(x) == IF x < 0 THEN -x ELSE x

MaxOf(S) == CHOOSE x \in S : \A y \in S : y <= x

\* Python indexing arr[i]: i from 0, a negative i counts from the end
InRange(arr, i) == -Len(arr) <= i /\ i < Len(arr)

At(arr, i) == IF i >= 0 THEN arr[i + 1] ELSE arr[Len(arr) + i + 1]

\* keys.argsort(): the positions of keys in ascending order of key
argsort(keys) ==
    LET n == Len(keys)
        rank(i) == Cardinality({j \in 1..n :
                       keys[j] < keys[i] \/ (keys[j] = keys[i] /\ j < i)}) + 1
    IN Array([r \in 1..n |-> CHOOSE i \in 1..n : rank(i) = r])

\* np.delete(arr, indxs): arr without the positions in indxs (0-based)
RECURSIVE DeleteFrom(_, _, _)
DeleteFrom(arr, indxs, i) ==
    IF i > Len(arr) THEN <<>>
    ELSE (IF (i - 1) \in indxs THEN <<>> ELSE <<arr[i]>>)
             \o DeleteFrom(arr, indxs, i + 1)

np_delete(arr, indxs) == DeleteFrom(arr, indxs, 1)

\* ------------------------------------------------------------------ dates

\* mdates.num2date(x).date() for a whole day number x: <<year, month, day>>
num2date(x) ==
    LET z == x + 719468
        era == z \div 146097
        doe == z - era * 146097
        yoe == (doe - (doe \div 1460) + (doe \div 36524) - (doe \div 146096)) \div 365
        doy == doe - (365 * yoe + (yoe \div 4) - (yoe \div 100))
        mp == (5 * doy + 2) \div 153
        d == doy - ((153 * mp + 2) \div 5) + 1
        m == IF mp < 10 THEN mp + 3 ELSE mp - 9
        y == yoe + era * 400 + (IF m <= 2 THEN 1 ELSE 0)
    IN <<y, m, d>>

YearOf(x) == num2date(x)[1]

\* ---------------------------------------------------------------- catalog

\* the catalog keys, in insertion order
Names == <<"A", "B", "C", "D", "E", "F">>

\* the samples project['effective'] of a curve of len daily samples
Effective(len) == [i \in 1..len |-> len + 1 - i]

\* project records with the fields the planner reads
Kinds(spuds, drills, maxs, totals, lens) ==
    [spud : spuds, drill : drills, max : maxs, total : totals,
     effective : {Effective(l) : l \in lens}]

\* catalogs of lo..hi projects drawn from K, as sequences in key order
Catalogs(lo, hi, K) == UNION {[1..l -> K] : l \in lo..hi}

\* date2num(2000-01-01), the first day of the period
Jan1 == 10957

VARIABLES
    projects_names,          \* self.projects_names
    projects,                \* self.projects: name -> record
    period,                  \* self.period
    first_day,               \* self.first_day
    first_project,           \* self.first_project: "mean", "minmax", "none"
    next_project,            \* self.next_project
    initial_iters,           \* self.initial_iters
    call,                    \* self.call
    used_projects,           \* self.used_projects
    projects_time_sequence,  \* self.projects_time_sequence
    active_projects,         \* self.active_projects
    projects_first_day,      \* self.projects_first_day
    projects_sequence,       \* self.projects_sequence; <<>> until computed
    pc,                      \* "idle", the loop a running call is in, or
                             \* "done" when __call__ has just returned
    err,                     \* "none", or the exception the last call raised
    ret,                     \* the number the last call returned, 0 for None
    n,                       \* the local n of the running method
    day,                     \* the day of the running method
    last_prod,               \* the last_prod of the running search
    combs_ind,               \* the combinations drawn by search_first_project
    exams,                   \* candidates examined by the running search
    production               \* the list production of __call__, its result

config == <<projects_names, projects, period, first_day, first_project,
            next_project, initial_iters>>

lists == <<used_projects, projects_time_sequence, active_projects,
           projects_first_day>>

locals == <<n, day, last_prod, combs_ind, exams>>

vars == <<config, lists, call, projects_sequence, pc, err, ret, locals,
          production>>

\* ------------------------------------------------------- class Projects

projects_length == Len(projects_names)

first_year == YearOf(first_day)

max_project_prod ==
    [i \in 1..projects_length |-> projects[projects_names[i]].max]

total_prod ==
    SumSeq([i \in 1..projects_length |-> projects[projects_names[i]].total])

\* |x - global_mean| * period
MeanDiff(x) == Abs(x * period - total_prod)

order_projects_names_abs == Take(projects_names, argsort(max_project_prod))

\* the planner after Projects_Planner(first_day, period, projects, **kwargs)
Planner(cat, per, fday, fp, np, iters) ==
    /\ projects_names = SubSeq(Names, 1, Len(cat))
    /\ projects = [nm \in {Names[i] : i \in 1..Len(cat)} |->
                     cat[CHOOSE i \in 1..Len(cat) : Names[i] = nm]]
    /\ period = per
    /\ first_day = fday
    /\ first_project = fp
    /\ next_project = np
    /\ initial_iters = iters
    /\ call = 0
    /\ used_projects = <<>>
    /\ projects_time_sequence = <<>>
    /\ active_projects = <<>>
    /\ projects_first_day = <<>>
    /\ projects_sequence = <<>>
    /\ pc = "idle"
    /\ err = "none"
    /\ ret = 0
    /\ n = 0
    /\ day = 0
    /\ last_prod = 0
    /\ combs_ind = <<>>
    /\ exams = 0
    /\ production = <<>>

\* ------------------------------------------------ the operational lists

\* the four lists of the planner, and the exception met while changing them
Lists == [used |-> used_projects, active |-> active_projects,
          first |-> projects_first_day, log |-> projects_time_sequence,
          err |-> "none"]

\* add_project_sequence dating the entry by the end of the drilling
add_project_sequence_end(project, fday) ==
    <<num2date(first_day + fday), project>>

\* the entry add_project_sequence appends to projects_time_sequence
add_project_sequence(project, fday) ==
    LET drill == projects[project].drill
        exec_date_num == first_day + fday - drill
    IN <<num2date(exec_date_num), project>>

\* the negation of the assertion of add_projects without its check
NeverUsed(project, used) == FALSE

\* project in self.used_projects, the negation of the assertion of add_projects
AlreadyUsed(project, used) == project \in Range(used)

\* one round of the loop of add_projects on the lists l
add_project(l, project, fday) ==
    IF AlreadyUsed(project, l.used)
    THEN [l EXCEPT !.err = "AssertionError"]
    ELSE IF project \notin DOMAIN projects
    THEN [l EXCEPT !.err = "KeyError"]
    ELSE [used |-> Append(l.used, project),
          active |-> Append(l.active, project),
          first |-> Append(l.first, fday),
          log |-> Append(l.log, add_project_sequence(project, fday)),
          err |-> "none"]

RECURSIVE add_projects_from(_, _, _, _)
add_projects_from(l, ids, k, fday) ==
    IF k > Len(ids) \/ l.err # "none" THEN l
    ELSE add_projects_from(add_project(l, ids[k], fday), ids, k + 1, fday)

\* add_projects(projects, first_day) run on the lists l: one round of its
\* loop per project, stopped by the first exception
add_projects(l, ids, fday) == add_projects_from(l, ids, 1, fday)

\* the lists l written back to the planner
SetLists(l) ==
    /\ used_projects' = l.used
    /\ active_projects' = l.active
    /\ projects_first_day' = l.first
    /\ projects_time_sequence' = l.log

\* update_simulatenous_projects retiring a project one day early
removed_one_day_early(l, d) ==
    {p - 1 : p \in {q \in 1..Len(l.active) :
        d - l.first[q] = Len(projects[l.active[q]].effective) - 1}}

\* the positions update_simulatenous_projects collects (0-based)
removed_projects_indxs(l, d) ==
    {p - 1 : p \in {q \in 1..Len(l.active) :
        d - l.first[q] = Len(projects[l.active[q]].effective)}}

\* remove_projects deleting from active_projects only
remove_active_only(l, indxs) ==
    [l EXCEPT !.active = np_delete(l.active, indxs)]

\* remove_projects(indxs) on the lists l
remove_projects(l, indxs) ==
    [l EXCEPT !.first = np_delete(l.first, indxs),
              !.active = np_delete(l.active, indxs)]

\* update_simulatenous_projects(day) on the lists l
update_simulatenous_projects(l, d) ==
    remove_projects(l, removed_projects_indxs(l, d))

\* the sum project_production(day) makes over the active projects of l:
\* <<exception, sum>>
RECURSIVE production_sum(_, _, _)
production_sum(l, d, p) ==
    IF p > Len(l.active) THEN <<"none", 0>>
    ELSE LET effective == projects[l.active[p]].effective
             i == d - l.first[p]
         IN IF ~InRange(effective, i) THEN <<"IndexError", 0>>
            ELSE LET rest == production_sum(l, d, p + 1)
                 IN <<rest[1], At(effective, i) + rest[2]>>

\* project_production summing over the active projects as it finds them
production_without_update(l, d) ==
    LET s == production_sum(l, d, 1)
    IN [lists |-> [l EXCEPT !.err = s[1]], P |-> s[2]]

\* project_production(day) on the lists l: the lists after it, with the
\* exception in err, and the sum it returns
project_production(l, d) ==
    LET u == update_simulatenous_projects(l, d)
        s == production_sum(u, d, 1)
    IN [lists |-> [u EXCEPT !.err = s[1]], P |-> s[2]]

\* ---------------------------------------------------- projects_ordering

spuds == [i \in 1..projects_length |-> projects[projects_names[i]].spud]

drill == [i \in 1..projects_length |-> projects[projects_names[i]].drill]

totals == [i \in 1..projects_length |-> projects[projects_names[i]].total]

\* the catalog positions with spud year earlier than the period start
before == Where([i \in 1..projects_length |-> spuds[i] < first_year])

\* the catalog positions with spud year later than or equal to the period start
after == Where([i \in 1..projects_length |-> spuds[i] >= first_year])

\* the positions side in increasing total production
indxs_order_increasing(side) == Take(side, argsort(Take(totals, side)))

\* the positions side in decreasing total production
indxs_order(side) == Take(side, Reverse(argsort(Take(totals, side))))

\* np.sort(np.unique(x))[::-1]
SortedDesc(S) ==
    Array([r \in 1..Cardinality(S) |->
              CHOOSE x \in S : Cardinality({y \in S : y > x}) = r - 1])

\* ind_sequence_before / ind_sequence_after: the positions of side, one
\* group per drill duration, longest duration first
ind_sequence(side) ==
    LET io == indxs_order(side)
        drill_order == Take(drill, io)
        drs == SortedDesc(Range(drill_order))
    IN Array([g \in 1..Len(drs) |->
           Take(io, Where([j \in 1..Len(io) |-> drill_order[j] = drs[g]]))])

\* the offset of the dd-th project (from 0) of the group met on loop day d
exec_day(days_before, d, dd) == days_before - d - dd

\* the loop building proj_sequence_before
proj_sequence_before ==
    LET isb == ind_sequence(before)
        days_before == MaxOf(Range(Take(drill, before)))
    IN Flatten([d1 \in 1..days_before |->
         Flatten([g \in 1..Len(isb) |->
           IF days_before - (d1 - 1) = drill[isb[g][1]]
           THEN [k \in 1..Len(isb[g]) |->
                   <<-exec_day(days_before, d1 - 1, k - 1), isb[g][k]>>]
           ELSE <<>>])])

\* the loop building proj_sequence_after
proj_sequence_after ==
    LET isa == Flatten(ind_sequence(after))
    IN [d1 \in 1..Len(after) |-> <<d1 - 1, isa[d1]>>]

\* projects_ordering(): the exception it raises and the projects_sequence
\* it leaves
projects_ordering ==
    IF before = <<>> \/ after = <<>>
    THEN [err |-> "ValueError", seq |-> projects_sequence]
    ELSE [err |-> "none", seq |-> proj_sequence_before \o proj_sequence_after]

\* ------------------------------------------------------- method calls

Days == 0..MaxDay

NameSet == Range(projects_names)

\* the project lists a caller may hand to add_projects: catalog keys and a
\* key "Z" that no catalog holds
AddInputs ==
    UNION {[1..k -> NameSet \cup {"Z"}] : k \in 1..MaxAddList}

\* no call is running
Idle == pc \in {"idle", "done"}

\* a call returns the number v, or raises e: the planner is idle again
Returns(e, v) ==
    /\ pc' = "idle"
    /\ err' = e
    /\ ret' = v
    /\ n' = 0
    /\ day' = 0
    /\ last_prod' = 0
    /\ combs_ind' = <<>>
    /\ exams' = 0
    /\ production' = <<>>
    /\ UNCHANGED config

\* planner.add_projects(ids, d)
AddProjectsCall(ids, d) ==
    LET l == add_projects(Lists, ids, d) IN
    /\ Idle
    /\ Len(l.log) <= MaxLog
    /\ Returns(l.err, 0)
    /\ SetLists(l)
    /\ UNCHANGED <<call, projects_sequence>>

AddProjects == \E ids \in AddInputs, d \in Days : AddProjectsCall(ids, d)

\* clear_projects emptying used_projects only
ClearUsedOnly ==
    /\ Idle
    /\ Returns("none", 0)
    /\ used_projects' = <<>>
    /\ UNCHANGED <<active_projects, projects_first_day,
                   projects_time_sequence, call, projects_sequence>>

\* planner.clear_projects()
ClearProjects ==
    /\ Idle
    /\ Returns("none", 0)
    /\ used_projects' = <<>>
    /\ active_projects' = <<>>
    /\ projects_first_day' = <<>>
    /\ UNCHANGED <<projects_time_sequence, call, projects_sequence>>

\* planner.remove_projects([i])
RemoveProjectsCall(i) ==
    /\ Idle
    /\ Returns("none", 0)
    /\ SetLists(remove_projects(Lists, {i}))
    /\ UNCHANGED <<call, projects_sequence>>

RemoveProjects ==
    \E i \in 0..(Len(active_projects) - 1) : RemoveProjectsCall(i)

\* planner.update_simulatenous_projects(d)
UpdateCall(d) ==
    /\ Idle
    /\ Returns("none", 0)
    /\ SetLists(update_simulatenous_projects(Lists, d))
    /\ UNCHANGED <<call, projects_sequence>>

UpdateSimultaneousProjects == \E d \in Days : UpdateCall(d)

\* planner.project_production(d)
ProductionCall(d) ==
    LET r == project_production(Lists, d) IN
    /\ Idle
    /\ Returns(r.lists.err, r.P)
    /\ SetLists(r.lists)
    /\ UNCHANGED <<call, projects_sequence>>

ProjectProduction == \E d \in Days : ProductionCall(d)

\* planner.projects_ordering()
ProjectsOrdering ==
    LET o == projects_ordering IN
    /\ Idle
    /\ Returns(o.err, 0)
    /\ projects_sequence' = o.seq
    /\ UNCHANGED <<lists, call>>

\* ------------------------------------------------- search_first_project

\* the elements of a set of numbers, ascending
SortedSeq(S) ==
    Array([r \in 1..Cardinality(S) |->
              CHOOSE x \in S : Cardinality({y \in S : y < x}) = r - 1])

\* what random_combination(range(projects_length), r) may return for the
\* r = np.random.choice(projects_length) of one round: catalog positions
Combinations ==
    {SortedSeq(S) : S \in {T \in SUBSET (1..projects_length) :
                              Cardinality(T) < projects_length}}

combs_sum == [c \in 1..Len(combs_ind) |->
                 SumSeq(Take(max_project_prod, combs_ind[c]))]

\* combs_mean_diff.argsort(), positions of combs_ind
sort_indxs == argsort([c \in 1..Len(combs_ind) |-> MeanDiff(combs_sum[c])])

\* the loop of a search is left: the locals go, the exception e is raised
Leaves(e) ==
    /\ pc' = "idle"
    /\ err' = e
    /\ n' = 0
    /\ day' = 0
    /\ last_prod' = 0
    /\ combs_ind' = <<>>
    /\ exams' = 0
    /\ UNCHANGED <<config, ret, production, call, projects_sequence>>

\* the search loop goes round again with n set to m
Again(m) ==
    /\ n' = m
    /\ exams' = exams + 1
    /\ UNCHANGED <<config, lists, call, projects_sequence, pc, err, ret, day,
                   last_prod, combs_ind, production>>

\* the candidate of a search is accepted and added on day d
Accepts(ids, d) ==
    LET l == add_projects(Lists, ids, d) IN
    /\ SetLists(l)
    /\ Leaves(l.err)

\* the candidate cannot be read: the search raises e
Raises(e) ==
    /\ Leaves(e)
    /\ UNCHANGED lists

\* search_first_project() up to its loop
SearchFirstStart ==
    /\ Idle
    /\ pc' = "first"
    /\ n' = IF first_project = "minmax" THEN -1 ELSE 0
    /\ combs_ind' \in IF first_project = "mean"
                      THEN [1..initial_iters -> Combinations]
                      ELSE {<<>>}
    /\ exams' = 0
    /\ err' = "none"
    /\ ret' = 0
    /\ production' = <<>>
    /\ UNCHANGED <<config, lists, call, projects_sequence, day, last_prod>>

\* one round of the loop of the policy 'mean'
SearchFirstMean ==
    /\ pc = "first"
    /\ first_project = "mean"
    /\ IF ~InRange(sort_indxs, n) THEN Raises("IndexError")
       ELSE LET projects_indxs == combs_ind[At(sort_indxs, n)]
                names == Take(projects_names, projects_indxs)
            IN IF \A k \in 1..Len(names) : projects[names[k]].spud < first_year
               THEN Accepts(names, 0)
               ELSE Again(n + 1)

\* the project the policy 'minmax' reads at n
minmax_candidate(m) ==
    LET max_project_prod_sort == argsort(max_project_prod)
        ind == At(max_project_prod_sort, m)
    IN order_projects_names_abs[ind]

\* one round of the loop of the policy 'minmax'
SearchFirstMinmax ==
    /\ pc = "first"
    /\ first_project = "minmax"
    /\ IF ~InRange(max_project_prod, n) THEN Raises("IndexError")
       ELSE LET project == minmax_candidate(n)
            IN IF projects[project].spud <= first_year
               THEN Accepts(<<project>>, 0)
               ELSE Again(n - 1)

\* one round of the loop of the remaining policy: a random project
SearchFirstRandom ==
    /\ pc = "first"
    /\ first_project = "none"
    /\ exams < MaxExams
    /\ \E m \in 0..(projects_length - 1) :
          LET project == At(projects_names, m)
          IN IF projects[project].spud < first_year
             THEN Accepts(<<project>>, 0)
             ELSE Again(m)

\* -------------------------------------------------- search_next_project

\* self.projects_names[~np.in1d(self.projects_names, self.used_projects)]
left_projects_ind ==
    Where([i \in 1..projects_length |->
              projects_names[i] \notin Range(used_projects)])

left_projects_name == Take(projects_names, left_projects_ind)

\* the peak scaled by last_prod - global_mean: peak * (lp * period - total_prod)
last_prod_diffs_scaled(lp) ==
    [i \in 1..projects_length |->
        max_project_prod[i] * (lp * period - total_prod)]

\* (peak + last_prod - global_mean) * period
last_prod_diffs(lp) ==
    [i \in 1..projects_length |->
        max_project_prod[i] * period + (lp * period - total_prod)]

\* the policy 'mean' ranking the projects left by increasing score
new_project_name_ord_increasing(lp) ==
    Take(left_projects_name,
         argsort(Take(last_prod_diffs(lp), left_projects_ind)))

\* new_project_name_ord of the policy 'mean'
new_project_name_ord(lp) ==
    Take(left_projects_name,
         Reverse(argsort(Take(last_prod_diffs(lp), left_projects_ind))))

\* spud_year <= current_year <= spud_date on simulation day d
Feasible(project, d) ==
    LET current_day == first_day + d
        current_year == YearOf(current_day)
        spud_date == YearOf(current_day - projects[project].drill)
    IN projects[project].spud <= current_year /\ current_year <= spud_date

LastProds == {0, 2}

\* search_next_project(d, lp) with policy 'mean', up to its loop
SearchNextStart ==
    /\ Idle
    /\ next_project = "mean"
    /\ \E d \in Days, lp \in LastProds :
          /\ day' = d
          /\ last_prod' = lp
    /\ pc' = "next"
    /\ n' = 0
    /\ exams' = 0
    /\ err' = "none"
    /\ ret' = 0
    /\ production' = <<>>
    /\ UNCHANGED <<config, lists, call, projects_sequence, combs_ind>>

\* one round of the loop of the policy 'mean'
SearchNextMean ==
    /\ pc = "next"
    /\ IF ~InRange(new_project_name_ord(last_prod), n)
       THEN Raises("IndexError")
       ELSE LET project == At(new_project_name_ord(last_prod), n)
            IN IF Feasible(project, day)
               THEN Accepts(<<project>>, day)
               ELSE Again(n + 1)

\* search_next_project(d, lp) with policy 'minmax': the first round of
\* either loop reads the local spud_year, which this branch never assigns
SearchNextMinmax ==
    /\ Idle
    /\ next_project = "minmax"
    /\ call < MaxCall
    /\ call' = call + 1
    /\ Returns(IF left_projects_name = <<>> THEN "IndexError"
               ELSE "UnboundLocalError", 0)
    /\ UNCHANGED <<lists, projects_sequence>>

\* search_next_project(d, lp) with the remaining policy: the first round
\* reads the name year, which nothing defines
SearchNextRandom ==
    /\ Idle
    /\ next_project = "none"
    /\ Returns(IF left_projects_name = <<>> THEN "ValueError"
               ELSE "NameError", 0)
    /\ UNCHANGED <<lists, call, projects_sequence>>

\* ---------------------------------------------------------------- __call__

\* one round of the first loop of __call__, on the lists and the n of st
early_round(st, entry) ==
    IF entry[1] < 0
    THEN [lists |-> add_projects(st.lists, <<projects_names[entry[2]]>>, 0),
          n |-> st.n + 1]
    ELSE st

RECURSIVE add_early_from(_, _, _)
add_early_from(st, seq, k) ==
    IF k > Len(seq) \/ st.lists.err # "none" THEN st
    ELSE add_early_from(early_round(st, seq[k]), seq, k + 1)

\* the first loop of __call__ on the lists l: the lists after it and the n
\* it counted
add_early(l, seq) == add_early_from([lists |-> l, n |-> 0], seq, 1)

\* the second loop of __call__ running over one day more
LaterDaysAndOne == 1..period

\* the days the second loop of __call__ simulates: execution[1:]
LaterDays == 1..(period - 1)

\* __call__() up to the production of day 0
CallStart ==
    /\ Idle
    /\ UNCHANGED <<config, call, last_prod, combs_ind, exams>>
    /\ ret' = 0
    /\ LET o == projects_ordering
           e == add_early(Lists, o.seq)
           r == project_production(e.lists, 0)
       IN /\ projects_sequence' = o.seq
          /\ IF o.err # "none"
             THEN /\ pc' = "idle" /\ err' = o.err /\ n' = 0 /\ day' = 0
                  /\ production' = <<>>
                  /\ UNCHANGED lists
             ELSE IF e.lists.err # "none"
             THEN /\ pc' = "idle" /\ err' = e.lists.err /\ n' = 0 /\ day' = 0
                  /\ production' = <<>>
                  /\ SetLists(e.lists)
             ELSE /\ SetLists(r.lists)
                  /\ err' = r.lists.err
                  /\ day' = 0
                  /\ IF r.lists.err # "none"
                     THEN pc' = "idle" /\ n' = 0 /\ production' = <<>>
                     ELSE pc' = "run" /\ n' = e.n /\ production' = <<r.P>>

\* one round of the second loop of __call__: the day after day
CallDay ==
    /\ pc = "run"
    /\ day + 1 \in LaterDays
    /\ UNCHANGED <<config, call, projects_sequence, last_prod, combs_ind,
                   exams, ret>>
    /\ LET d == day + 1
           adds == n < projects_length
           a == IF ~adds THEN Lists
                ELSE IF ~InRange(projects_sequence, n)
                THEN [Lists EXCEPT !.err = "IndexError"]
                ELSE add_projects(Lists,
                         <<projects_names[At(projects_sequence, n)[2]]>>, d)
           r == project_production(a, d)
       IN IF a.err # "none"
          THEN /\ SetLists(a)
               /\ pc' = "idle" /\ err' = a.err /\ n' = 0 /\ day' = 0
               /\ production' = <<>>
          ELSE /\ SetLists(r.lists)
               /\ err' = r.lists.err
               /\ IF r.lists.err # "none"
                  THEN pc' = "idle" /\ n' = 0 /\ day' = 0 /\ production' = <<>>
                  ELSE /\ pc' = "run"
                       /\ n' = IF adds THEN n + 1 ELSE n
                       /\ day' = d
                       /\ production' = Append(production, r.P)

\* __call__() returns production
CallReturn ==
    /\ pc = "run"
    /\ day + 1 \notin LaterDays
    /\ pc' = "done"
    /\ n' = 0
    /\ day' = 0
    /\ UNCHANGED <<config, lists, call, projects_sequence, err, ret,
                   last_prod, combs_ind, exams, production>>

\* --------------------------------------------------------- specifications

Policies == {"mean", "minmax", "none"}

\* projects_time_sequence only grows: a call that may append k entries, and
\* no more than there are unused projects, is taken while they fit under
\* MaxLog
LogRoom(k) ==
    LET unused == projects_length - Len(used_projects)
    IN Len(projects_time_sequence) + (IF k < unused THEN k ELSE unused)
           <= MaxLog

SearchFirst ==
    /\ LogRoom(IF first_project = "mean" THEN projects_length - 1 ELSE 1)
    /\ SearchFirstStart

SearchNext == LogRoom(1) /\ SearchNextStart

Call == LogRoom(projects_length) /\ CallStart

\* Spec: one planner and every sequence of calls of its methods
Init ==
    \E cat \in Catalogs(1, MaxProjects,
                        Kinds({1999, 2000}, {0, 1}, {1}, {1}, {1})),
       policy \in Policies :
        Planner(cat, MaxPeriod, Jan1, policy, policy, MaxIters)

Next ==
    \/ AddProjects
    \/ ClearProjects
    \/ RemoveProjects
    \/ UpdateSimultaneousProjects
    \/ ProjectProduction
    \/ ProjectsOrdering
    \/ SearchFirst
    \/ SearchFirstMean
    \/ SearchFirstMinmax
    \/ SearchFirstRandom
    \/ SearchNext
    \/ SearchNextMean
    \/ SearchNextMinmax
    \/ SearchNextRandom
    \/ Call
    \/ CallDay
    \/ CallReturn

Spec == Init /\ [][Next]_vars

\* SpecRun: one full run, __call__(), of a planner just built: small
\* catalogs of every kind, and longer ones of projects that differ in spud
\* year and drill duration only
RunProjects == 2

LongProjects == 5

InitRun ==
    \E cat \in Catalogs(1, RunProjects,
                        Kinds({1999, 2000}, {0, 1, 2}, {1}, {1}, {0, 1, 2}))
               \cup Catalogs(RunProjects + 1, LongProjects,
                             Kinds({1999, 2000}, {1, 2}, {1}, {1}, {1})),
       per \in 1..MaxPeriod :
        Planner(cat, per, Jan1, "mean", "mean", MaxIters)

FreshCall == projects_time_sequence = <<>> /\ err = "none" /\ CallStart

NextRun ==
    \/ FreshCall
    \/ CallDay
    \/ CallReturn

SpecRun == InitRun /\ [][NextRun]_vars

\* SpecOrd: projects_ordering() applied to a catalog
OrdProjects == 4

InitOrd ==
    \E cat \in Catalogs(1, OrdProjects,
                        Kinds({1999, 2000}, {0, 1, 2}, {1}, {1, 2}, {1})) :
        Planner(cat, MaxPeriod, Jan1, "mean", "mean", MaxIters)

NextOrd == ProjectsOrdering

SpecOrd == InitOrd /\ [][NextOrd]_vars

\* SpecSearch: search_first_project() and search_next_project() under every
\* pair of policies
SearchProjects == 2

InitSearch ==
    \E cat \in Catalogs(1, SearchProjects,
                        Kinds({1999, 2000, 2001}, {0, 1}, {1, 2}, {1}, {1})),
       fp \in Policies, np \in Policies :
        Planner(cat, MaxPeriod, Jan1, fp, np, MaxIters)

NextSearch ==
    \/ SearchFirstStart
    \/ SearchFirstMean
    \/ SearchFirstMinmax
    \/ SearchFirstRandom
    \/ SearchNextStart
    \/ SearchNextMean
    \/ SearchNextMinmax
    \/ SearchNextRandom

SpecSearch == InitSearch /\ [][NextSearch]_vars


\* SpecNext: search_next_project() with policy 'mean', called again and
\* again on any day and with any last_prod
NextProjects == 2

InitNext ==
    \E cat \in Catalogs(1, NextProjects,
                        Kinds({1999, 2000, 2001}, {0, 1}, {1, 2}, {1}, {1})) :
        Planner(cat, MaxPeriod, Jan1, "mean", "mean", MaxIters)

NextNext ==
    \/ SearchNextStart
    \/ SearchNextMean

SpecNext == InitNext /\ [][NextNext]_vars

\* SpecLists: add_projects, update_simulatenous_projects and
\* project_production called in any order and on any day, over catalogs of
\* projects that differ in the length of their curve, and longer ones of
\* projects with a curve of one sample
ListProjects == 2

LongList == 3

ListDay == 2

\* the catalogs of C whose curves do not get shorter from one key to the
\* next: the three methods read a project by its name only, so every other
\* catalog is one of these with the keys renamed
ByCurve(C) ==
    {cat \in C : \A i \in 1..(Len(cat) - 1) :
        Len(cat[i].effective) <= Len(cat[i + 1].effective)}

InitLists ==
    \E cat \in ByCurve(Catalogs(1, ListProjects,
                                Kinds({1999}, {0}, {1}, {1}, {0, 1, 2})))
               \cup Catalogs(ListProjects + 1, LongList,
                             Kinds({1999}, {0}, {1}, {1}, {1})) :
        Planner(cat, MaxPeriod, Jan1, "mean", "mean", MaxIters)

\* planner.add_projects(project, d) for one project name
ListAdd ==
    \E project \in NameSet, d \in 0..ListDay :
        LET l == add_projects(Lists, <<project>>, d) IN
        /\ Idle
        /\ Returns(l.err, 0)
        /\ SetLists(l)
        /\ UNCHANGED <<call, projects_sequence>>

ListUpdate == \E d \in 0..ListDay : UpdateCall(d)

ListProduction == \E d \in 0..ListDay : ProductionCall(d)

NextLists ==
    \/ ListAdd
    \/ ListUpdate
    \/ ListProduction

SpecLists == InitLists /\ [][NextLists]_vars

\* SpecAlign: the five methods that write the operational lists,
\* add_projects, clear_projects, remove_projects,
\* update_simulatenous_projects and project_production, called in any order
\* and on any day
AlignProjects == 2

AlignDay == 1

AlignLog == 2        \* cap on the length of projects_time_sequence

InitAlign ==
    \E cat \in Catalogs(1, AlignProjects,
                        Kinds({1999}, {0, 1}, {1}, {1}, {1})) :
        Planner(cat, MaxPeriod, Jan1, "mean", "mean", MaxIters)

\* planner.add_projects(project, d) for one project name, while the
\* execution log has room
AlignAdd ==
    \E project \in NameSet, d \in 0..AlignDay :
        LET l == add_projects(Lists, <<project>>, d) IN
        /\ Idle
        /\ Len(l.log) <= AlignLog
        /\ Returns(l.err, 0)
        /\ SetLists(l)
        /\ UNCHANGED <<call, projects_sequence>>

AlignUpdate == \E d \in 0..AlignDay : UpdateCall(d)

AlignProduction == \E d \in 0..AlignDay : ProductionCall(d)

NextAlign ==
    \/ AlignAdd
    \/ ClearProjects
    \/ RemoveProjects
    \/ AlignUpdate
    \/ AlignProduction

SpecAlign == InitAlign /\ [][NextAlign]_vars

\* ------------------------------------------------------------------ claims

Count(seq, x) == Cardinality({k \in DOMAIN seq : seq[k] = x})

Last(seq) == seq[Len(seq)]

\* C1: when a full run returns, the output sequence it returns has length
\* exactly period
C1_OutputLength == pc = "done" => Len(production) = period

C1_Witness ==
    pc = "done" /\ period = MaxPeriod /\ Len(used_projects) >= 2

\* C2: used_projects never holds a project twice and never holds more
\* projects than the catalog
C2_UsedDistinct ==
    /\ \A i, j \in DOMAIN used_projects :
          i # j => used_projects[i] # used_projects[j]
    /\ Len(used_projects) <= projects_length

C2_Witness ==
    /\ projects_length >= 2
    /\ Len(used_projects) = projects_length
    /\ err = "AssertionError"

\* the start day the execution log records for a used project
RecordedStart(project) ==
    CHOOSE s \in 0..period :
        \E k \in DOMAIN projects_time_sequence :
            projects_time_sequence[k] = add_project_sequence(project, s)

\* C3: in a full run, after the update of simulated day d, a project added
\* with start day s is active, with start day s, exactly when
\* s <= d < s + len(effective): it leaves active on day s + len(effective),
\* not before and not after
C3_ActiveWindow ==
    pc = "run" =>
        \A k \in DOMAIN used_projects :
            LET project == used_projects[k]
                s == RecordedStart(project)
                len == Len(projects[project].effective)
            IN (\E q \in DOMAIN active_projects :
                    /\ active_projects[q] = project
                    /\ projects_first_day[q] = s)
               <=> (s <= day /\ day < s + len)

C3_Witness ==
    /\ pc = "run"
    /\ \E k \in DOMAIN used_projects :
          LET project == used_projects[k]
              s == RecordedStart(project)
              len == Len(projects[project].effective)
          IN /\ s >= 1
             /\ len >= 1
             /\ day = s + len
             /\ project \notin Range(active_projects)
    /\ active_projects # <<>>

AllEarly == \A i \in 1..projects_length : spuds[i] < first_year

DistinctDrills ==
    \A i, j \in 1..projects_length : i # j => drill[i] # drill[j]

\* C4: on a catalog whose projects are all early and differ pairwise in
\* drill duration, projects_ordering leaves a projects_sequence that lists
\* every project, in descending drill duration, each with offset minus its
\* drill duration
C4_EarlyByDrill ==
    [][(ProjectsOrdering /\ AllEarly /\ DistinctDrills) =>
          /\ err' = "none"
          /\ Len(projects_sequence') = projects_length
          /\ \A k \in 1..projects_length :
                /\ projects_sequence'[k][1] = -drill[projects_sequence'[k][2]]
                /\ k < projects_length =>
                      drill[projects_sequence'[k][2]]
                          > drill[projects_sequence'[k + 1][2]]]_vars

\* C5: when search_first_project with policy minmax returns, it has added,
\* with start day 0, a project with spud year <= first year whose peak no
\* other project with spud year <= first year exceeds
C5_MinmaxFirstHighestPeak ==
    [][(pc = "first" /\ first_project = "minmax" /\ pc' = "idle"
            /\ err' = "none") =>
          /\ Len(used_projects') = Len(used_projects) + 1
          /\ Last(active_projects') = Last(used_projects')
          /\ Last(projects_first_day') = 0
          /\ projects[Last(used_projects')].spud <= first_year
          /\ \A q \in NameSet :
                projects[q].spud <= first_year =>
                    projects[q].max <= projects[Last(used_projects')].max]_vars

\* C6: projects_time_sequence holds exactly one entry for every project in
\* used_projects and none for any other project
C6_LogMatchesUsed ==
    \A id \in NameSet :
        Cardinality({k \in DOMAIN projects_time_sequence :
                        projects_time_sequence[k][2] = id})
            = (IF id \in Range(used_projects) THEN 1 ELSE 0)

\* the first position of ids at which add_projects(ids, d) raises: the id is
\* in used_projects, or was added by an earlier round, or is no catalog key
FirstRefused(ids) ==
    LET bad == {k \in 1..Len(ids) :
                   \/ ids[k] \in Range(used_projects)
                   \/ \E j \in 1..(k - 1) : ids[j] = ids[k]
                   \/ ids[k] \notin NameSet}
    IN IF bad = {} THEN Len(ids) + 1
       ELSE CHOOSE k \in bad : \A j \in bad : k <= j

\* C7: add_projects(ids, d) raises for an id already in used_projects and
\* appends nothing for it to used_projects, active_projects,
\* projects_first_day or projects_time_sequence; for each catalog id not in
\* used_projects that it reaches, it appends the id to used_projects and
\* active_projects, d to projects_first_day and the date of
\* first_day + d - drill, with the id, to projects_time_sequence
C7_AddProjects ==
    [][\A ids \in AddInputs, d \in Days :
          AddProjectsCall(ids, d) =>
              LET f == FirstRefused(ids)
                  u == Len(used_projects)
                  a == Len(active_projects)
                  t == Len(projects_time_sequence)
              IN /\ Len(used_projects') = u + f - 1
                 /\ Len(active_projects') = a + f - 1
                 /\ Len(projects_first_day') = a + f - 1
                 /\ Len(projects_time_sequence') = t + f - 1
                 /\ SubSeq(used_projects', 1, u) = used_projects
                 /\ SubSeq(active_projects', 1, a) = active_projects
                 /\ SubSeq(projects_first_day', 1, a) = projects_first_day
                 /\ SubSeq(projects_time_sequence', 1, t)
                        = projects_time_sequence
                 /\ \A k \in 1..(f - 1) :
                       /\ used_projects'[u + k] = ids[k]
                       /\ active_projects'[a + k] = ids[k]
                       /\ projects_first_day'[a + k] = d
                       /\ projects_time_sequence'[t + k] =
                              <<num2date(first_day + d
                                             - projects[ids[k]].drill),
                                ids[k]>>
                 /\ (f <= Len(ids)) = (err' # "none")
                 /\ (f <= Len(ids) /\ ids[f] \in Range(used_projects))
                        => err' = "AssertionError"]_vars

C7_Witness ==
    /\ pc = "idle"
    /\ err = "AssertionError"
    /\ Len(used_projects) = 1
    /\ active_projects = used_projects
    /\ Len(projects_time_sequence) = 1
    /\ projects[used_projects[1]].drill = 1

\* C8: in a full run, once the production of day 0 is computed, no later
\* simulated day raises the failure 'Project already used!'
C8_NoLateValidationFailure ==
    [][pc = "run" => err' # "AssertionError"]_vars

\* the most candidates a search has to examine: every project, or every
\* combination drawn
SearchBound ==
    IF projects_length > initial_iters THEN projects_length
    ELSE initial_iters

\* C9: a running search_first_project or search_next_project has examined
\* no more candidates than there are to examine
C9_SearchBounded == pc \in {"first", "next"} => exams <= SearchBound

\* C10: every early project of projects_sequence has a negative offset and
\* its drilling is over by day 0: offset + drill duration <= 0
C10_EarlyDrilledByDayZero ==
    \A k \in DOMAIN projects_sequence :
        LET offset == projects_sequence[k][1]
            ii == projects_sequence[k][2]
        IN spuds[ii] < first_year =>
               offset < 0 /\ offset + drill[ii] <= 0


\* projects_sequence lists every project once, the early ones first and with
\* negative offsets
WellOrdered ==
    /\ Len(projects_sequence) = projects_length
    /\ {projects_sequence[k][2] : k \in DOMAIN projects_sequence}
           = 1..projects_length
    /\ \A k \in DOMAIN projects_sequence :
          spuds[projects_sequence[k][2]] < first_year
              <=> projects_sequence[k][1] < 0

\* C11: in a full run over such a projects_sequence, a late project that the
\* day loop has added was added on the simulated day equal to its planned
\* offset
C11_LateOnPlannedDay ==
    (pc = "run" /\ WellOrdered) =>
        \A k \in DOMAIN projects_sequence :
            LET offset == projects_sequence[k][1]
                project == projects_names[projects_sequence[k][2]]
            IN (project \in Range(used_projects)
                   /\ projects[project].spud >= first_year)
                   => RecordedStart(project) = offset

\* C12: a projects_sequence that projects_ordering computes lists every
\* position of the catalog exactly once
C12_SequenceIsPermutation ==
    [][(ProjectsOrdering /\ err' = "none") =>
          /\ Len(projects_sequence') = projects_length
          /\ {projects_sequence'[k][2] : k \in DOMAIN projects_sequence'}
                 = 1..projects_length]_vars

\* C13: a full run whose period exceeds the number of late projects ends
\* with every catalog project in used_projects
C13_AllScheduled ==
    (pc = "done" /\ period > Len(after)) => Range(used_projects) = NameSet


\* the last entries of the sequence seq, one per late project
LateEntries(seq) ==
    LET L == Len(after)
    IN IF Len(seq) < L THEN <<>> ELSE SubSeq(seq, Len(seq) - L + 1, Len(seq))

ActivePairs ==
    [q \in 1..Len(active_projects) |->
        <<active_projects[q], projects_first_day[q]>>]

ActivePairsAfter ==
    [q \in 1..Len(active_projects') |->
        <<active_projects'[q], projects_first_day'[q]>>]

\* the curve of the project of pair is not exhausted on day d
Stays(pair, d) == d - pair[2] # Len(projects[pair[1]].effective)

\* the active pairs that are not exhausted on day d, in list order
Staying(d) ==
    LET Test(pair) == Stays(pair, d) IN SelectSeq(ActivePairs, Test)

\* the sample of its curve that the project of pair has on day d
Sample(pair, d) == At(projects[pair[1]].effective, d - pair[2])

\* C15: project_production(d) leaves active the pairs update(d) leaves,
\* returns the sum of effective[d - start day] over them (0 over none)
\* unless one of them has no such sample, and changes neither used_projects
\* nor projects_time_sequence
C15_DailyProduction ==
    [][\A d \in 0..ListDay :
          ProductionCall(d) =>
              LET kept == Staying(d)
                  defined == \A q \in DOMAIN kept :
                      InRange(projects[kept[q][1]].effective, d - kept[q][2])
              IN /\ used_projects' = used_projects
                 /\ projects_time_sequence' = projects_time_sequence
                 /\ Len(projects_first_day') = Len(active_projects')
                 /\ ActivePairsAfter = kept
                 /\ defined <=> err' = "none"
                 /\ defined =>
                       ret' = SumSeq([q \in DOMAIN kept |->
                                         Sample(kept[q], d)])
                 /\ kept = <<>> => (ret' = 0 /\ err' = "none")]_vars

C15_Witness ==
    /\ pc = "idle"
    /\ err = "none"
    /\ ret = 3
    /\ Len(active_projects) = 2
    /\ projects_first_day[1] # projects_first_day[2]

\* C16: update_simulatenous_projects(d) leaves active exactly the pairs
\* with d - start day # len(effective), each with its own start day and in
\* the order they had
C16_UpdateKeepsOthers ==
    [][\A d \in 0..ListDay :
          UpdateCall(d) =>
              /\ Len(projects_first_day') = Len(active_projects')
              /\ ActivePairsAfter = Staying(d)]_vars

C16_Witness ==
    /\ pc = "idle"
    /\ err = "none"
    /\ Len(used_projects) = 3
    /\ active_projects = <<used_projects[2]>>
    /\ projects_first_day[1] = 1
    /\ \E D \in 0..ListDay :
          /\ RecordedStart(used_projects[1])
                 + Len(projects[used_projects[1]].effective) = D
          /\ RecordedStart(used_projects[3])
                 + Len(projects[used_projects[3]].effective) = D


\* the score of the policy 'mean', peak + (lp - global_mean), times period
Score(project, lp) == (projects[project].max + lp) * period - total_prod

\* the projects not in used_projects that pass the test of
\* search_next_project on day d
Candidates(d) ==
    {q \in NameSet \ Range(used_projects) :
        /\ projects[q].spud <= YearOf(first_day + d)
        /\ YearOf(first_day + d) <= YearOf(first_day + d - projects[q].drill)}

\* search_next_project, policy 'mean', leaves its loop
NextMeanEnds == pc = "next" /\ next_project = "mean" /\ pc' = "idle"

C18_NextMinmaxAlternates ==
    [][\A d \in Days :
          (SearchNextMinmax /\ Candidates(d) # {}) =>
              /\ err' = "none"
              /\ used_projects' \in
                     {Append(used_projects, q) : q \in Candidates(d)}
              /\ \A q \in Candidates(d) :
                    IF call' % 2 = 0
                    THEN projects[q].max <= projects[Last(used_projects')].max
                    ELSE projects[q].max >= projects[Last(used_projects')].max]_vars


\* C19: when search_first_project returns without an exception it has added
\* a project, or more, to used_projects and to active_projects, with start
\* day 0
C19_FirstSearchAdds ==
    [][(pc = "first" /\ pc' = "idle" /\ err' = "none") =>
          /\ Len(used_projects') > Len(used_projects)
          /\ Len(active_projects') > Len(active_projects)
          /\ SubSeq(used_projects', 1, Len(used_projects)) = used_projects
          /\ \A k \in (Len(active_projects) + 1)..Len(active_projects') :
                projects_first_day'[k] = 0]_vars


\* what search_next_project(d, lp) with policy 'mean' does on the planner as
\* it stands: the project it adds, or the exception it raises when its loop
\* runs off the ranking
NextMeanOutcome(d, lp) ==
    LET ord == new_project_name_ord(lp)
        hits == {k \in 1..Len(ord) : Feasible(ord[k], d)}
    IN IF hits = {} THEN "IndexError"
       ELSE ord[CHOOSE k \in hits : \A j \in hits : k <= j]

LastLogged(project) ==
    LET ks == {k \in DOMAIN projects_time_sequence :
                  projects_time_sequence[k][2] = project}
    IN projects_time_sequence[CHOOSE k \in ks : \A j \in ks : j <= k]

\* C21: in every state active_projects and projects_first_day have the same
\* length, entry q of projects_first_day is the start day given when the
\* q-th active project was added (the day its latest entry of the execution
\* log was made with), and every active project is in used_projects
C21_ActiveListsAligned ==
    /\ Len(active_projects) = Len(projects_first_day)
    /\ \A q \in DOMAIN active_projects :
          LET project == active_projects[q] IN
          /\ project \in Range(used_projects)
          /\ \E k \in DOMAIN projects_time_sequence :
                projects_time_sequence[k][2] = project
          /\ LastLogged(project)
                 = add_project_sequence(project, projects_first_day[q])

\* two projects were added on different days and the first of them has been
\* removed: the second is now the first active project, with its own day
C21_Witness ==
    /\ Len(used_projects) = 2
    /\ active_projects = <<used_projects[2]>>
    /\ projects_first_day = <<1>>
    /\ projects_time_sequence[1]
           = add_project_sequence(used_projects[1], 0)
    /\ projects[used_projects[1]].drill # projects[used_projects[2]].drill

=============================================================================
